---- MODULE Spec2Model ----
(***************************************************************************)
(* Model of knowledge-graph/main.py: the extraction worker pool with its   *)
(* retry loop, the shared connection list and its checkpoint files, the    *)
(* two in-place filter passes, the query builder and the loader pool.      *)
(***************************************************************************)
EXTENDS Integers, Sequences, FiniteSets, TLC

\* ------------------------------------------------------------------------
\* Bounds of the model.  The two thread counts and the retry count are the
\* program's settings scaled down (main.py:19, 20, 25 set 5, 5 and 1).
\* ------------------------------------------------------------------------
CONNECTION_BUILDER_THREADS == 2
RELATIONSHIP_EXTRACTION_SERVICE_RETRIES == 2
GRAPH_LOADER_THREADS == 2
MaxSentences == 2
MaxLen == 4

Workers == 1..CONNECTION_BUILDER_THREADS
Loaders == 1..GRAPH_LOADER_THREADS
SentenceIds == 1..MaxSentences

\* a checkpoint file: whether os.path.isfile finds it, and its rows
NoFile == [exists |-> FALSE, rows |-> << >>]
CacheFile(rows) == [exists |-> TRUE, rows |-> rows]
NoSentence == [document |-> "", sentence |-> 0]

\* ------------------------------------------------------------------------
\* Values
\* ------------------------------------------------------------------------

\* str.lower() on the entity texts of the model
Lower(s) ==
  CASE s = "The" -> "the"
    [] s = "Cat" -> "cat"
    [] OTHER -> s

\* nlp.Defaults.stop_words, restricted to the entity texts of the model
stop_words == {"the"}

\* os.path.basename(file_name.replace("\\", os.sep))
Basename(file_name) ==
  CASE file_name = "./data/a.txt" -> "a.txt"
    [] file_name = "./data/b.txt" -> "b.txt"
    [] OTHER -> file_name

\* EntityConnection: its five fields
EntityConnection(f, t, r, c, n) ==
  [from_entity |-> f, to_entity |-> t, relationship |-> r,
   confidence |-> c, file_name |-> n]

\* EntityConnection.__eq__
ConnEq(a, b) ==
  /\ a.from_entity = b.from_entity
  /\ a.to_entity = b.to_entity
  /\ a.relationship = b.relationship
  /\ a.confidence = b.confidence
  /\ a.file_name = b.file_name

\* `x in l` on a list of EntityConnection
ListContains(l, x) == \E k \in 1..Len(l) : ConnEq(l[k], x)

\* list.remove(x): deletes the first element equal to x
ListRemove(l, x) ==
  IF ~ListContains(l, x) THEN l
  ELSE LET k == CHOOSE j \in 1..Len(l) :
                  /\ ConnEq(l[j], x)
                  /\ \A m \in 1..(j - 1) : ~ConnEq(l[m], x)
       IN  SubSeq(l, 1, k - 1) \o SubSeq(l, k + 1, Len(l))

\* list.append that silently skips a value already present
ListAppendUnique(l, x) == IF ListContains(l, x) THEN l ELSE Append(l, x)

\* list.append(x)
ListAppend(l, x) == Append(l, x)

\* ------------------------------------------------------------------------
\* The two filter passes, as the loops of the code
\* ------------------------------------------------------------------------
RECURSIVE StopWordsLoop(_, _, _)
StopWordsLoop(connections, i, current_length) ==
  IF i <= current_length
  THEN LET connection == connections[i]
       IN  IF Lower(connection.from_entity) \in stop_words
           THEN StopWordsLoop(ListRemove(connections, connection), i,
                              current_length - 1)
           ELSE StopWordsLoop(connections, i + 1, current_length)
  ELSE connections

RECURSIVE StopWordsLoopCaseSensitive(_, _, _)
StopWordsLoopCaseSensitive(connections, i, current_length) ==
  IF i <= current_length
  THEN LET connection == connections[i]
       IN  IF connection.from_entity \in stop_words
           THEN StopWordsLoopCaseSensitive(ListRemove(connections, connection),
                                           i, current_length - 1)
           ELSE StopWordsLoopCaseSensitive(connections, i + 1, current_length)
  ELSE connections

\* the stop-word pass without the lower-casing of from_entity
filter_connections_stop_words_case(connections) ==
  StopWordsLoopCaseSensitive(connections, 1, Len(connections))

filter_connections_stop_words(connections) ==
  StopWordsLoop(connections, 1, Len(connections))

RECURSIVE DupsLoop(_, _, _, _)
DupsLoop(connections, i, no_dup_list, current_length) ==
  IF i <= current_length
  THEN LET connection == connections[i]
       IN  IF ListContains(no_dup_list, connection)
           THEN DupsLoop(ListRemove(connections, connection), i, no_dup_list,
                         current_length - 1)
           ELSE DupsLoop(connections, i + 1, Append(no_dup_list, connection),
                         current_length)
  ELSE connections

RECURSIVE DupsLoopSkip(_, _, _, _)
DupsLoopSkip(connections, i, no_dup_list, current_length) ==
  IF i <= current_length
  THEN LET connection == connections[i]
       IN  IF ListContains(no_dup_list, connection)
           THEN DupsLoopSkip(ListRemove(connections, connection), i + 1,
                             no_dup_list, current_length - 1)
           ELSE DupsLoopSkip(connections, i + 1,
                             Append(no_dup_list, connection), current_length)
  ELSE connections

\* the deduplication pass with the index advanced after a removal as well
filter_connections_dups_skip(connections) ==
  DupsLoopSkip(connections, 1, <<>>, Len(connections))

filter_connections_dups(connections) ==
  DupsLoop(connections, 1, <<>>, Len(connections))

\* ------------------------------------------------------------------------
\* Extraction records, statements and checkpoint rows
\* ------------------------------------------------------------------------

\* records of an OpenIE5 response; recBad lacks the "rel" field
recCat == [extraction |-> [arg1 |-> [text |-> "cat"], rel |-> [text |-> "sat on"],
                           arg2s |-> << [text |-> "the"] >>],
           confidence |-> "0.9"]
recThe == [extraction |-> [arg1 |-> [text |-> "The"], rel |-> [text |-> "is"],
                           arg2s |-> << [text |-> "cat"], [text |-> "dog"] >>],
           confidence |-> "0.5"]
recNoArg == [extraction |-> [arg1 |-> [text |-> "cat"], rel |-> [text |-> "sat"],
                             arg2s |-> << >>],
             confidence |-> "0.5"]
recQuote == [extraction |-> [arg1 |-> [text |-> "dog"], rel |-> [text |-> "sat \"on\""],
                             arg2s |-> << [text |-> "cat"] >>],
             confidence |-> "0.5"]
recBad == [extraction |-> [arg1 |-> [text |-> "cat"],
                           arg2s |-> << [text |-> "dog"] >>],
           confidence |-> "0.9"]

\* what extractor.extract can return for a sentence
Responses ==
  { << >>, <<recNoArg, recThe>>, <<recQuote, recQuote>>, <<recCat, recBad>>,
    <<recBad, recCat>> }

\* float(text): confidences are kept in tenths
StrToFloat(text) ==
  CASE text = "0.9" -> 9
    [] text = "0.5" -> 5
    [] OTHER -> 0

\* str(confidence) as csv.writer and the f-string write it
FloatToStr(c) ==
  CASE c = 9 -> "0.9"
    [] c = 5 -> "0.5"
    [] OTHER -> "0.0"

\* build_connection_from_extraction up to the append: "raise" is the KeyError
\* of a subscript on a missing field, "none" the record without arg2s
build_connection_from_extraction(extraction, document) ==
  IF \/ "extraction" \notin DOMAIN extraction
     \/ "arg2s" \notin DOMAIN extraction.extraction
  THEN [kind |-> "raise"]
  ELSE IF Len(extraction.extraction.arg2s) = 0
  THEN [kind |-> "none"]
  ELSE IF \/ "arg1" \notin DOMAIN extraction.extraction
          \/ "rel" \notin DOMAIN extraction.extraction
          \/ "confidence" \notin DOMAIN extraction
  THEN [kind |-> "raise"]
  ELSE [kind |-> "append",
        connection |->
          EntityConnection(extraction.extraction.arg1.text,
                           extraction.extraction.arg2s[1].text,
                           extraction.extraction.rel.text,
                           StrToFloat(extraction.confidence),
                           Basename(document))]

\* str.replace('"', '\\"') on the texts of the model
Escape(s) ==
  CASE s = "sat \"on\"" -> "sat \\\"on\\\""
    [] OTHER -> s

\* the MERGE statement built for one connection
BuildQuery(connection) ==
  [from_name |-> Escape(connection.from_entity),
   to_name |-> Escape(connection.to_entity),
   rel_name |-> Escape(connection.relationship),
   confidence |-> FloatToStr(connection.confidence)]

\* the statements put on the queue, last Connection first
QueriesOfReversed(connections) ==
  [k \in 1..Len(connections) |-> BuildQuery(connections[Len(connections) + 1 - k])]

\* the `for connection in connections` loop: the statements put, in order
QueriesOf(connections) ==
  [k \in 1..Len(connections) |-> BuildQuery(connections[k])]

\* csv.writer on the texts of the model: a text with a quote is written in
\* quotes, its quotes doubled
CsvField(s) ==
  CASE s = "sat \"on\"" -> "\"sat \"\"on\"\"\""
    [] OTHER -> s

\* csv.reader on the fields of the model: a field in quotes is read without
\* them, its doubled quotes single
CsvParse(t) ==
  CASE t = "\"sat \"\"on\"\"\"" -> "sat \"on\""
    [] OTHER -> t

\* the row cache_data writes for one connection
CacheRow(c) ==
  <<CsvField(c.from_entity), CsvField(c.to_entity), CsvField(c.relationship),
    FloatToStr(c.confidence), CsvField(c.file_name)>>

\* cache_data: the file content written from a connection list
cache_data(connections) ==
  CacheFile([k \in 1..Len(connections) |-> CacheRow(connections[k])])

\* the primary checkpoint file read with the fields taken as they are written
get_cache_connections_raw(file) ==
  IF ~file.exists THEN << >>
  ELSE [k \in 1..Len(file.rows) |->
          EntityConnection(file.rows[k][1], file.rows[k][2], file.rows[k][3],
                           StrToFloat(file.rows[k][4]), file.rows[k][5])]

\* get_cache_connections: the list read from the primary checkpoint file,
\* an empty list for a missing file (init_connection_list)
get_cache_connections(file) ==
  IF ~file.exists THEN << >>
  ELSE [k \in 1..Len(file.rows) |->
          EntityConnection(CsvParse(file.rows[k][1]), CsvParse(file.rows[k][2]),
                           CsvParse(file.rows[k][3]),
                           StrToFloat(file.rows[k][4]),
                           CsvParse(file.rows[k][5]))]

\* the Document list of a directory holding n sentences in at most two files
MakeDocuments(n) ==
  IF n = 0 THEN << >>
  ELSE IF n = 1 THEN << [file_name |-> "./data/a.txt", sentences |-> <<1>>] >>
  ELSE << [file_name |-> "./data/a.txt", sentences |-> <<1>>],
          [file_name |-> "./data/b.txt",
           sentences |-> [k \in 1..(n - 1) |-> k + 1]] >>

\* the Connections a response carries for a document
RECURSIVE ExpectedConnections(_, _)
ExpectedConnections(response, document) ==
  IF response = << >> THEN << >>
  ELSE LET b == build_connection_from_extraction(Head(response), document)
       IN  (IF b.kind = "append" THEN <<b.connection>> ELSE << >>)
           \o ExpectedConnections(Tail(response), document)

\* every Connection value a worker can build
BuildableConnections ==
  UNION { { ExpectedConnections(response, d)[k] :
              k \in 1..Len(ExpectedConnections(response, d)) } :
          response \in Responses, d \in {"./data/a.txt", "./data/b.txt"} }

\* the sentence_queue.put loop: document order, then sentence order
RECURSIVE EnqueueAll(_)
EnqueueAll(docs) ==
  IF docs = << >> THEN << >>
  ELSE [k \in 1..Len(Head(docs).sentences) |->
          [document |-> Head(docs).file_name,
           sentence |-> Head(docs).sentences[k]]]
       \o EnqueueAll(Tail(docs))

\* ------------------------------------------------------------------------
\* State
\* ------------------------------------------------------------------------
VARIABLES
  main_pc,             \* position of main()
  cache_file,          \* entity_connections.cache: NoFile or its rows
  filtered_file,       \* entity_connections_filtered.cache: NoFile or its rows
  documents,           \* the Document list built from the data directory
  sentence_queue,      \* the shared Queue of DocumentSentence
  connection_list,     \* the shared list of EntityConnection
  query_queue,         \* the Queue of statements
  sentences_count,     \* sentences put on the queue
  sentences_processed, \* the sum of the workers' results
  w_pc,                \* per extraction worker: its position
  docSentence,         \* per extraction worker: the item it holds
  current_try,         \* per extraction worker: tries left
  got_extractions,     \* per extraction worker
  extractions,         \* per extraction worker: records still to iterate
  worker_processed,    \* per extraction worker: its sentences_processed
  l_pc,                \* per loader worker: its position
  l_query,             \* per loader worker: the statement it holds
  queries_loaded,      \* per loader worker
  graph,               \* the statements the graph store has committed
  cache_at_start,      \* history: the primary checkpoint file at startup
  item_calls,          \* history, per worker: extract calls for the item held
  item_expected,       \* history, per worker: the Connections of its response
  item_appended,       \* history, per worker: the Connections appended for it
  dequeues,            \* history, per sentence: how often a get returned it
  counted,             \* history, per sentence: increments of a processed count
  dropped,             \* history: the sentences skipped after the last try
  built,               \* history: how often each Connection value was built
  f_in,                \* filter passes alone: the list given
  f_prev,              \* filter passes alone: the list before the last pass
  f_out,               \* filter passes alone: the list after the last pass
  f_ops,               \* filter passes alone: the passes applied
  credentials_file,    \* .credentials: whether it exists, and its lines
  auth,                \* Loader.auth: the username and password read
  statements,          \* history: the statements this run put on the queue
  earlier              \* history: what the run before this one handed on

main_vars == <<main_pc, cache_file, filtered_file, documents, sentence_queue,
               connection_list, query_queue, sentences_count,
               sentences_processed>>
worker_vars == <<w_pc, docSentence, current_try, got_extractions, extractions,
                 worker_processed>>
loader_vars == <<l_pc, l_query, queries_loaded, graph>>
history_vars == <<cache_at_start, item_calls, item_expected, item_appended,
                  dequeues, counted, built, dropped>>
filter_vars == <<f_in, f_prev, f_out, f_ops>>
cred_vars == <<credentials_file, auth>>
run_vars == <<statements, earlier>>
vars == <<main_vars, worker_vars, loader_vars, history_vars, filter_vars,
         cred_vars, run_vars>>

\* connections a checkpoint file of an earlier run can hold
connThe == EntityConnection("The", "cat", "is", 5, "a.txt")
connCat == EntityConnection("cat", "the", "sat on", 9, "a.txt")
connLow == EntityConnection("the", "cat", "is", 5, "a.txt")
connDog == EntityConnection("dog", "cat", "is", 5, "a.txt")
connDogB == EntityConnection("dog", "cat", "is", 5, "b.txt")
connQuote == EntityConnection("dog", "cat", "sat \"on\"", 5, "a.txt")

\* the primary checkpoint file as a run can find it
CacheInputs ==
  { NoFile, CacheFile(<< >>), cache_data(<<connThe, connCat, connCat>>),
    cache_data(<<connCat, connQuote, connCat, connDog>>) }

\* the .credentials file as a run can find it: missing, a username line
\* only, or a username line and a password line
NoCredentials == [exists |-> FALSE, lines |-> << >>]
CredentialInputs ==
  { NoCredentials,
    [exists |-> TRUE, lines |-> <<"neo4j">>],
    [exists |-> TRUE, lines |-> <<"neo4j", "secret">>] }

\* fd.readline().strip(): the k-th line, "" past the end of the file
ReadLine(file, k) == IF k <= Len(file.lines) THEN file.lines[k] ELSE ""

\* Neo4jAuth.__init__ on a file that exists
Neo4jAuth(file) == [username |-> ReadLine(file, 1), password |-> ReadLine(file, 2)]

NoAuth == [username |-> "", password |-> ""]

\* no run before this one
NoRun == [ran |-> FALSE, handed |-> << >>, statements |-> << >>]

InitWorkers ==
  /\ w_pc = [w \in Workers |-> "idle"]
  /\ docSentence = [w \in Workers |-> NoSentence]
  /\ current_try = [w \in Workers |-> 0]
  /\ got_extractions = [w \in Workers |-> FALSE]
  /\ extractions = [w \in Workers |-> << >>]
  /\ worker_processed = [w \in Workers |-> 0]

InitLoaders ==
  /\ l_pc = [l \in Loaders |-> "idle"]
  /\ l_query = [l \in Loaders |-> << >>]
  /\ queries_loaded = [l \in Loaders |-> 0]
  /\ graph = << >>

InitHistory ==
  /\ cache_at_start = cache_file
  /\ item_calls = [w \in Workers |-> 0]
  /\ item_expected = [w \in Workers |-> << >>]
  /\ item_appended = [w \in Workers |-> << >>]
  /\ dequeues = [s \in SentenceIds |-> 0]
  /\ counted = [s \in SentenceIds |-> 0]
  /\ built = [c \in BuildableConnections |-> 0]
  /\ dropped = {}

InitMain ==
  /\ sentence_queue = << >>
  /\ connection_list = << >>
  /\ query_queue = << >>
  /\ sentences_count = 0
  /\ sentences_processed = 0
  /\ filtered_file = NoFile

\* the state in which main() is entered; a missing or one-line credentials
\* file is paired with a directory of one sentence and no checkpoint
Init ==
  /\ main_pc = "start"
  /\ cache_file \in CacheInputs
  /\ \E n \in 0..MaxSentences : documents = MakeDocuments(n)
  /\ credentials_file \in CredentialInputs
  /\ Len(credentials_file.lines) < 2
       => cache_file = NoFile /\ documents = MakeDocuments(1)
  /\ auth = NoAuth
  /\ statements = << >>
  /\ earlier = NoRun
  /\ InitMain /\ InitWorkers /\ InitLoaders /\ InitHistory
  /\ f_in = << >> /\ f_prev = << >> /\ f_out = << >> /\ f_ops = << >>

\* ------------------------------------------------------------------------
\* main(), up to the worker pool
\* ------------------------------------------------------------------------

\* main: the init_* calls and build_documents_from_files; init_loader opens
\* .credentials, and a missing file ends main() with the error of open()
Startup ==
  /\ main_pc = "start"
  /\ connection_list' = get_cache_connections(cache_file)
  /\ sentence_queue' = << >>
  /\ query_queue' = << >>
  /\ IF credentials_file.exists
     THEN /\ auth' = Neo4jAuth(credentials_file)
          /\ main_pc' = "build"
     ELSE /\ auth' = auth
          /\ main_pc' = "aborted"
  /\ UNCHANGED <<cache_file, filtered_file, documents, sentences_count,
                 sentences_processed, credentials_file>>
  /\ UNCHANGED <<worker_vars, loader_vars, history_vars, filter_vars, run_vars>>

\* build_connections_from_documents: the early return on a populated list
SkipBuild ==
  /\ main_pc = "build"
  /\ Len(connection_list) > 0
  /\ main_pc' = "filter"
  /\ UNCHANGED <<cache_file, filtered_file, documents, sentence_queue,
                 connection_list, query_queue, sentences_count,
                 sentences_processed>>
  /\ UNCHANGED <<worker_vars, loader_vars, history_vars, filter_vars, cred_vars, run_vars>>

\* build_connections_from_documents: fill the queue, then start the pool
StartPool ==
  /\ main_pc = "build"
  /\ ~(Len(connection_list) > 0)
  /\ sentence_queue' = sentence_queue \o EnqueueAll(documents)
  /\ sentences_count' = Len(EnqueueAll(documents))
  /\ sentences_processed' = 0
  /\ w_pc' = [w \in Workers |-> "get"]
  /\ main_pc' = "pool"
  /\ UNCHANGED <<cache_file, filtered_file, documents, connection_list,
                 query_queue>>
  /\ UNCHANGED <<docSentence, current_try, got_extractions, extractions,
                 worker_processed>>
  /\ UNCHANGED <<loader_vars, history_vars, filter_vars, cred_vars, run_vars>>

\* ------------------------------------------------------------------------
\* build_connections_from_document: one extraction worker
\* ------------------------------------------------------------------------

\* sentence_queue.get returns an item; the retry loop is entered
SentenceGet(w) ==
  /\ w_pc[w] = "get"
  /\ sentence_queue # << >>
  /\ docSentence' = [docSentence EXCEPT ![w] = Head(sentence_queue)]
  /\ sentence_queue' = Tail(sentence_queue)
  /\ got_extractions' = [got_extractions EXCEPT ![w] = FALSE]
  /\ current_try' = [current_try EXCEPT ![w] = RELATIONSHIP_EXTRACTION_SERVICE_RETRIES]
  /\ w_pc' = [w_pc EXCEPT ![w] = "try"]
  /\ dequeues' = [dequeues EXCEPT ![Head(sentence_queue).sentence] = @ + 1]
  /\ item_calls' = [item_calls EXCEPT ![w] = 0]
  /\ item_expected' = [item_expected EXCEPT ![w] = << >>]
  /\ item_appended' = [item_appended EXCEPT ![w] = << >>]
  /\ UNCHANGED <<main_pc, cache_file, filtered_file, documents,
                 connection_list, query_queue, sentences_count,
                 sentences_processed>>
  /\ UNCHANGED <<extractions, worker_processed>>
  /\ UNCHANGED <<dropped, cache_at_start, counted, built>>
  /\ UNCHANGED <<loader_vars, filter_vars, cred_vars, run_vars>>

\* sentence_queue.get raises Empty after the timeout: the worker returns its
\* sentences_processed, and its other locals go with the frame
SentenceQueueEmpty(w) ==
  /\ w_pc[w] = "get"
  /\ sentence_queue = << >>
  /\ w_pc' = [w_pc EXCEPT ![w] = "exited"]
  /\ docSentence' = [docSentence EXCEPT ![w] = NoSentence]
  /\ current_try' = [current_try EXCEPT ![w] = 0]
  /\ got_extractions' = [got_extractions EXCEPT ![w] = FALSE]
  /\ item_calls' = [item_calls EXCEPT ![w] = 0]
  /\ item_expected' = [item_expected EXCEPT ![w] = << >>]
  /\ item_appended' = [item_appended EXCEPT ![w] = << >>]
  /\ UNCHANGED <<extractions, worker_processed>>
  /\ UNCHANGED <<dropped, cache_at_start, dequeues, counted, built>>
  /\ UNCHANGED <<main_vars, loader_vars, filter_vars, cred_vars, run_vars>>

\* where the worker goes once no record is left to iterate
AfterRecords(rest) == IF rest = << >> THEN "get" ELSE "records"

\* extractor.extract returns: the sentence is counted, the loop is left
ExtractReturns(w) ==
  /\ w_pc[w] = "try"
  /\ current_try[w] > 0
  /\ \E response \in Responses :
       /\ extractions' = [extractions EXCEPT ![w] = response]
       /\ item_expected' = [item_expected EXCEPT ![w] =
                              ExpectedConnections(response, docSentence[w].document)]
       /\ w_pc' = [w_pc EXCEPT ![w] = AfterRecords(response)]
  /\ got_extractions' = [got_extractions EXCEPT ![w] = TRUE]
  /\ worker_processed' = [worker_processed EXCEPT ![w] = @ + 1]
  /\ item_calls' = [item_calls EXCEPT ![w] = @ + 1]
  /\ counted' = [counted EXCEPT ![docSentence[w].sentence] = @ + 1]
  /\ UNCHANGED <<docSentence, current_try>>
  /\ UNCHANGED <<dropped, cache_at_start, item_appended, dequeues, built>>
  /\ UNCHANGED <<main_vars, loader_vars, filter_vars, cred_vars, run_vars>>

\* extractor.extract raises: one try less; with none left the item is skipped
ExtractRaises(w) ==
  /\ w_pc[w] = "try"
  /\ current_try[w] > 0
  /\ current_try' = [current_try EXCEPT ![w] = @ - 1]
  /\ item_calls' = [item_calls EXCEPT ![w] = @ + 1]
  /\ w_pc' = [w_pc EXCEPT ![w] = IF current_try[w] - 1 > 0 THEN "try" ELSE "get"]
  /\ dropped' = IF current_try[w] - 1 > 0 THEN dropped
                ELSE dropped \cup {docSentence[w].sentence}
  /\ UNCHANGED <<docSentence, got_extractions, extractions, worker_processed>>
  /\ UNCHANGED <<cache_at_start, item_expected, item_appended, dequeues,
                 counted, built>>
  /\ UNCHANGED <<main_vars, loader_vars, filter_vars, cred_vars, run_vars>>

\* one iteration of `for extraction in extractions`: the record is turned
\* into a Connection and appended, or has no arg2s and is passed over
ConnectionBuilt(w) ==
  /\ w_pc[w] = "records"
  /\ extractions[w] # << >>
  /\ LET b == build_connection_from_extraction(Head(extractions[w]), docSentence[w].document)
         rest == Tail(extractions[w])
     IN  /\ b.kind # "raise"
         /\ IF b.kind = "append"
            THEN /\ connection_list' = ListAppend(connection_list, b.connection)
                 /\ item_appended' = [item_appended EXCEPT ![w] =
                                        Append(@, b.connection)]
                 /\ built' = [built EXCEPT ![b.connection] = @ + 1]
            ELSE UNCHANGED <<connection_list, item_appended, built>>
         /\ extractions' = [extractions EXCEPT ![w] = rest]
         /\ w_pc' = [w_pc EXCEPT ![w] = AfterRecords(rest)]
  /\ UNCHANGED <<main_pc, cache_file, filtered_file, documents, sentence_queue,
                 query_queue, sentences_count, sentences_processed>>
  /\ UNCHANGED <<docSentence, current_try, got_extractions, worker_processed>>
  /\ UNCHANGED <<dropped, cache_at_start, item_calls, item_expected, dequeues, counted>>
  /\ UNCHANGED <<loader_vars, filter_vars, cred_vars, run_vars>>

\* one iteration of `for extraction in extractions`: a subscript raises
\* KeyError outside every try block, and the worker's call ends with it
ConnectionRaises(w) ==
  /\ w_pc[w] = "records"
  /\ extractions[w] # << >>
  /\ build_connection_from_extraction(Head(extractions[w]), docSentence[w].document).kind = "raise"
  /\ w_pc' = [w_pc EXCEPT ![w] = "crashed"]
  /\ UNCHANGED <<docSentence, current_try, got_extractions, extractions,
                 worker_processed>>
  /\ UNCHANGED <<main_vars, loader_vars, history_vars, filter_vars, cred_vars, run_vars>>

\* ------------------------------------------------------------------------
\* main(), from the end of the worker pool on
\* ------------------------------------------------------------------------
\* the results of the pool summed with the last worker's result alone
SumProcessedLast(f, n) == IF n = 0 THEN 0 ELSE f[n]

RECURSIVE SumProcessed(_, _)
SumProcessed(f, n) == IF n = 0 THEN 0 ELSE f[n] + SumProcessed(f, n - 1)

\* an extraction worker's call has ended, by return or by exception
WorkerEnded(w) == w_pc[w] \in {"exited", "crashed"}

\* the pool is left as soon as one worker has ended
PoolDoneEarly == \E w \in Workers : WorkerEnded(w)

\* leaving `with ThreadPoolExecutor`: every worker's call has ended
PoolDone == \A w \in Workers : WorkerEnded(w)

\* build_connections_from_documents: the results are summed and gone with
\* the result iterator, the pool is left and cache_connections writes the
\* primary checkpoint
PoolJoin ==
  /\ main_pc = "pool"
  /\ PoolDone
  /\ ~(\E w \in Workers : w_pc[w] = "crashed")
  /\ sentences_processed' = SumProcessed(worker_processed, CONNECTION_BUILDER_THREADS)
  /\ worker_processed' = [w \in Workers |-> 0]
  /\ cache_file' = cache_data(connection_list)
  /\ main_pc' = "filter"
  /\ UNCHANGED <<filtered_file, documents, sentence_queue, connection_list,
                 query_queue, sentences_count>>
  /\ UNCHANGED <<w_pc, docSentence, current_try, got_extractions, extractions>>
  /\ UNCHANGED <<loader_vars, history_vars, filter_vars, cred_vars, run_vars>>

\* build_connections_from_documents: a worker's exception is re-raised by the
\* result iterator; the pool is left and the exception ends main()
PoolAbort ==
  /\ main_pc = "pool"
  /\ PoolDone
  /\ \E w \in Workers : w_pc[w] = "crashed"
  /\ main_pc' = "aborted"
  /\ UNCHANGED <<cache_file, filtered_file, documents, sentence_queue,
                 connection_list, query_queue, sentences_count,
                 sentences_processed>>
  /\ UNCHANGED <<worker_vars, loader_vars, history_vars, filter_vars, cred_vars, run_vars>>

\* filter_connections: both passes in place, then cache_filtered_connections
filter_connections ==
  /\ main_pc = "filter"
  /\ connection_list' =
       filter_connections_stop_words(filter_connections_dups(connection_list))
  /\ filtered_file' = cache_data(connection_list')
  /\ main_pc' = "queries"
  /\ UNCHANGED <<cache_file, documents, sentence_queue, query_queue,
                 sentences_count, sentences_processed>>
  /\ UNCHANGED <<worker_vars, loader_vars, history_vars, filter_vars, cred_vars, run_vars>>

\* build_queries_from_connections
build_queries_from_connections ==
  /\ main_pc = "queries"
  /\ query_queue' = query_queue \o QueriesOf(connection_list)
  /\ statements' = query_queue'
  /\ main_pc' = "load"
  /\ UNCHANGED <<cache_file, filtered_file, documents, sentence_queue,
                 connection_list, sentences_count, sentences_processed>>
  /\ UNCHANGED <<worker_vars, loader_vars, history_vars, filter_vars, cred_vars,
                 earlier>>

\* Loader.load_queries: the loader workers are started
load_queries ==
  /\ main_pc = "load"
  /\ l_pc' = [l \in Loaders |-> "get"]
  /\ main_pc' = "loading"
  /\ UNCHANGED <<cache_file, filtered_file, documents, sentence_queue,
                 connection_list, query_queue, sentences_count,
                 sentences_processed>>
  /\ UNCHANGED <<l_query, queries_loaded, graph>>
  /\ UNCHANGED <<worker_vars, history_vars, filter_vars, cred_vars, run_vars>>

\* Loader.load_query: queries.get returns a statement
QueryGet(l) ==
  /\ l_pc[l] = "get"
  /\ query_queue # << >>
  /\ l_query' = [l_query EXCEPT ![l] = <<Head(query_queue)>>]
  /\ query_queue' = Tail(query_queue)
  /\ l_pc' = [l_pc EXCEPT ![l] = "run"]
  /\ UNCHANGED <<main_pc, cache_file, filtered_file, documents, sentence_queue,
                 connection_list, sentences_count, sentences_processed>>
  /\ UNCHANGED <<queries_loaded, graph>>
  /\ UNCHANGED <<worker_vars, history_vars, filter_vars, cred_vars, run_vars>>

\* Loader.load_query: queries.get raises Empty after the timeout
QueryQueueEmpty(l) ==
  /\ l_pc[l] = "get"
  /\ query_queue = << >>
  /\ l_pc' = [l_pc EXCEPT ![l] = "exited"]
  /\ UNCHANGED <<l_query, queries_loaded, graph>>
  /\ UNCHANGED <<main_vars, worker_vars, history_vars, filter_vars, cred_vars, run_vars>>

\* Loader.load_query: the statement is counted as loaded, nothing is committed
StatementDropped(l) ==
  /\ l_pc[l] = "run"
  /\ queries_loaded' = [queries_loaded EXCEPT ![l] = @ + 1]
  /\ l_query' = [l_query EXCEPT ![l] = << >>]
  /\ l_pc' = [l_pc EXCEPT ![l] = "get"]
  /\ UNCHANGED graph
  /\ UNCHANGED <<main_vars, worker_vars, history_vars, filter_vars, cred_vars, run_vars>>

\* Loader.load_query: the write transaction of the statement commits
StatementRuns(l) ==
  /\ l_pc[l] = "run"
  /\ graph' = graph \o l_query[l]
  /\ queries_loaded' = [queries_loaded EXCEPT ![l] = @ + 1]
  /\ l_query' = [l_query EXCEPT ![l] = << >>]
  /\ l_pc' = [l_pc EXCEPT ![l] = "get"]
  /\ UNCHANGED <<main_vars, worker_vars, history_vars, filter_vars, cred_vars, run_vars>>

\* Loader.load_query: the write transaction raises, the worker's call ends and
\* what the pool had committed is rolled back
StatementFailsUndo(l) ==
  /\ l_pc[l] = "run"
  /\ l_pc' = [l_pc EXCEPT ![l] = "crashed"]
  /\ graph' = << >>
  /\ UNCHANGED <<l_query, queries_loaded>>
  /\ UNCHANGED <<main_vars, worker_vars, history_vars, filter_vars, cred_vars, run_vars>>

\* Loader.load_query: the write transaction raises and ends the worker's call
StatementFails(l) ==
  /\ l_pc[l] = "run"
  /\ l_pc' = [l_pc EXCEPT ![l] = "crashed"]
  /\ UNCHANGED <<l_query, queries_loaded, graph>>
  /\ UNCHANGED <<main_vars, worker_vars, history_vars, filter_vars, cred_vars, run_vars>>

\* a loader worker's call has ended, by return or by exception
LoaderEnded(l) == l_pc[l] \in {"exited", "crashed"}

\* Loader.load_queries: the pool is left, every result was a return
LoadJoin ==
  /\ main_pc = "loading"
  /\ \A l \in Loaders : l_pc[l] = "exited"
  /\ main_pc' = "done"
  /\ UNCHANGED <<cache_file, filtered_file, documents, sentence_queue,
                 connection_list, query_queue, sentences_count,
                 sentences_processed>>
  /\ UNCHANGED <<worker_vars, loader_vars, history_vars, filter_vars, cred_vars, run_vars>>

\* Loader.load_queries: a loader's exception is re-raised and ends main()
LoadAbort ==
  /\ main_pc = "loading"
  /\ \A l \in Loaders : LoaderEnded(l)
  /\ \E l \in Loaders : l_pc[l] = "crashed"
  /\ main_pc' = "aborted"
  /\ UNCHANGED <<cache_file, filtered_file, documents, sentence_queue,
                 connection_list, query_queue, sentences_count,
                 sentences_processed>>
  /\ UNCHANGED <<worker_vars, loader_vars, history_vars, filter_vars, cred_vars, run_vars>>

\* main() is entered again after a run whose extraction phase wrote a
\* populated primary checkpoint: the files are as that run left them, every
\* module-level name is unset again
Restart ==
  /\ main_pc \in {"done", "aborted"}
  /\ \E w \in Workers : w_pc[w] # "idle"
  /\ cache_file.exists /\ Len(cache_file.rows) > 0
  /\ earlier' = [ran |-> TRUE, handed |-> connection_list,
                 statements |-> statements]
  /\ statements' = << >>
  /\ main_pc' = "start"
  /\ sentence_queue' = << >>
  /\ connection_list' = << >>
  /\ query_queue' = << >>
  /\ sentences_count' = 0
  /\ sentences_processed' = 0
  /\ w_pc' = [w \in Workers |-> "idle"]
  /\ docSentence' = [w \in Workers |-> NoSentence]
  /\ current_try' = [w \in Workers |-> 0]
  /\ got_extractions' = [w \in Workers |-> FALSE]
  /\ extractions' = [w \in Workers |-> << >>]
  /\ worker_processed' = [w \in Workers |-> 0]
  /\ l_pc' = [l \in Loaders |-> "idle"]
  /\ l_query' = [l \in Loaders |-> << >>]
  /\ queries_loaded' = [l \in Loaders |-> 0]
  /\ graph' = << >>
  /\ auth' = NoAuth
  /\ cache_at_start' = cache_file
  /\ item_calls' = [w \in Workers |-> 0]
  /\ item_expected' = [w \in Workers |-> << >>]
  /\ item_appended' = [w \in Workers |-> << >>]
  /\ dequeues' = [s \in SentenceIds |-> 0]
  /\ counted' = [s \in SentenceIds |-> 0]
  /\ built' = [c \in BuildableConnections |-> 0]
  /\ dropped' = {}
  /\ UNCHANGED <<cache_file, filtered_file, documents, credentials_file>>
  /\ UNCHANGED filter_vars

\* ------------------------------------------------------------------------
\* Specifications of a run
\* ------------------------------------------------------------------------
MainStep ==
  \/ Restart
  \/ Startup
  \/ SkipBuild
  \/ StartPool
  \/ PoolJoin
  \/ PoolAbort
  \/ filter_connections
  \/ build_queries_from_connections
  \/ load_queries
  \/ LoadJoin
  \/ LoadAbort

WorkerStep(w) ==
  \/ SentenceGet(w)
  \/ SentenceQueueEmpty(w)
  \/ ExtractReturns(w)
  \/ ExtractRaises(w)
  \/ ConnectionBuilt(w)
  \/ ConnectionRaises(w)

LoaderStep(l) ==
  \/ QueryGet(l)
  \/ QueryQueueEmpty(l)
  \/ StatementRuns(l)
  \/ StatementFails(l)

Next ==
  \/ MainStep
  \/ \E w \in Workers : WorkerStep(w)
  \/ \E l \in Loaders : LoaderStep(l)

Spec == Init /\ [][Next]_vars

\* every thread that can take a step eventually takes one; every call of the
\* extraction service and of the graph store returns or raises
FairSpec ==
  /\ Spec
  /\ WF_vars(MainStep)
  /\ \A w \in Workers : WF_vars(WorkerStep(w))
  /\ \A l \in Loaders : WF_vars(LoaderStep(l))

\* ------------------------------------------------------------------------
\* Runs seeded from a populated primary checkpoint: the extraction phase is
\* skipped, the store is filtered, turned into statements and loaded
\* ------------------------------------------------------------------------
InitSeeded ==
  /\ Init
  /\ cache_file.exists /\ Len(cache_file.rows) > 0

NextSeeded ==
  \/ Startup
  \/ SkipBuild
  \/ filter_connections
  \/ build_queries_from_connections
  \/ load_queries
  \/ LoadJoin
  \/ LoadAbort
  \/ \E l \in Loaders : LoaderStep(l)

SeededSpec == InitSeeded /\ [][NextSeeded]_vars

\* main() and every loader worker eventually take the step they can take;
\* every call of the graph store returns or raises
SeededFairSpec ==
  /\ SeededSpec
  /\ WF_vars(MainStep)
  /\ \A l \in Loaders : WF_vars(LoaderStep(l))

\* ------------------------------------------------------------------------
\* The filter passes alone, on every list up to MaxLen
\* ------------------------------------------------------------------------
MaxPasses == 2

FilterValues == {connThe, connLow, connCat, connDog, connDogB}

BoundedSeq(S, n) == UNION {[1..k -> S] : k \in 0..n}

InitFilter ==
  /\ main_pc = "filters"
  /\ cache_file = NoFile
  /\ documents = << >>
  /\ credentials_file = NoCredentials
  /\ auth = NoAuth
  /\ statements = << >>
  /\ earlier = NoRun
  /\ InitMain /\ InitWorkers /\ InitLoaders /\ InitHistory
  /\ f_in \in BoundedSeq(FilterValues, MaxLen)
  /\ f_prev = f_in
  /\ f_out = f_in
  /\ f_ops = << >>

\* filter_connections_dups(connections) on the list as it stands
ApplyDups ==
  /\ main_pc = "filters"
  /\ Len(f_ops) < MaxPasses
  /\ f_prev' = f_out
  /\ f_out' = filter_connections_dups(f_out)
  /\ f_ops' = Append(f_ops, "dups")
  /\ UNCHANGED f_in
  /\ UNCHANGED <<main_vars, worker_vars, loader_vars, history_vars, cred_vars, run_vars>>

\* filter_connections_stop_words(connections) on the list as it stands
ApplyStopWords ==
  /\ main_pc = "filters"
  /\ Len(f_ops) < MaxPasses
  /\ f_prev' = f_out
  /\ f_out' = filter_connections_stop_words(f_out)
  /\ f_ops' = Append(f_ops, "stop")
  /\ UNCHANGED f_in
  /\ UNCHANGED <<main_vars, worker_vars, loader_vars, history_vars, cred_vars, run_vars>>

NextFilter ==
  \/ ApplyDups
  \/ ApplyStopWords

FilterSpec == InitFilter /\ [][NextFilter]_vars

\* ========================================================================
\* Properties
\* ========================================================================
R == RELATIONSHIP_EXTRACTION_SERVICE_RETRIES

\* how often a list holds a Connection value
Count(l, c) == Cardinality({k \in 1..Len(l) : ConnEq(l[k], c)})

\* the worker is through with the item it holds
ItemFinished(w) ==
  /\ docSentence[w] # NoSentence
  /\ w_pc[w] \in {"get", "crashed"}

\* a response with a record that build_connection_from_extraction cannot read
Malformed(response, document) ==
  \E k \in 1..Len(response) : build_connection_from_extraction(response[k], document).kind = "raise"

\* C1: the extraction service is called at most R times for a sentence; a
\* sentence whose call failed R-1 times and then returned has its Connections
\* appended and is counted; a sentence whose call failed R times has nothing
\* appended, is not counted, and its worker goes on to the next item.
C1_RetryPolicy ==
  \A w \in Workers :
    /\ item_calls[w] <= R
    /\ (ItemFinished(w) /\ got_extractions[w] /\ item_calls[w] = R)
         => /\ item_appended[w] = item_expected[w]
            /\ \A k \in 1..Len(item_expected[w]) :
                 ListContains(connection_list, item_expected[w][k])
            /\ counted[docSentence[w].sentence] = 1
            /\ w_pc[w] = "get"
    /\ (ItemFinished(w) /\ ~got_extractions[w])
         => /\ item_calls[w] = R
            /\ item_appended[w] = << >>
            /\ counted[docSentence[w].sentence] = 0
            /\ w_pc[w] = "get"

\* C2: a primary checkpoint file present at startup, whatever its rows, means
\* that no sentence is enqueued, no extraction worker is started and the
\* extraction service is never called.
C2_CheckpointSkipsExtraction ==
  cache_at_start.exists
    => /\ sentences_count = 0
       /\ sentence_queue = << >>
       /\ \A w \in Workers : w_pc[w] = "idle" /\ item_calls[w] = 0
       /\ \A s \in SentenceIds : dequeues[s] = 0

FirstOccurrences(l) ==
  LET Keep(k) == \A j \in 1..(k - 1) : ~ConnEq(l[j], l[k])
      kept == {k \in 1..Len(l) : Keep(k)}
      RECURSIVE Pick(_)
      Pick(k) == IF k > Len(l) THEN << >>
                 ELSE (IF k \in kept THEN <<l[k]>> ELSE << >>) \o Pick(k + 1)
  IN  Pick(1)

LastOp == IF f_ops = << >> THEN "" ELSE f_ops[Len(f_ops)]

\* C4: filter_connections_dups leaves exactly the first occurrences of the
\* distinct Connections of its input, in input order.
C4_DupsKeepFirstInOrder ==
  LastOp = "dups" => f_out = FirstOccurrences(f_prev)

\* C5: a second filter_connections_dups directly after a first removes nothing.
C5_DupsIdempotent ==
  (Len(f_ops) >= 2 /\ f_ops[Len(f_ops)] = "dups" /\ f_ops[Len(f_ops) - 1] = "dups")
    => f_out = f_prev

\* the first pass removed duplicates and a second pass has been applied
C5_Witness ==
  /\ f_ops = <<"dups", "dups">>
  /\ Len(f_prev) < Len(f_in)
  /\ Len(f_prev) >= 2

NotStopWord(c) == Lower(c.from_entity) \notin stop_words

\* C6: filter_connections_stop_words removes exactly the Connections whose
\* lower-cased from_entity is a stop word and keeps the others in their order.
C6_StopWordsExact ==
  LastOp = "stop" => f_out = SelectSeq(f_prev, NotStopWord)

\* a list with a duplicated stop-word Connection, in both cases of the word,
\* and with a Connection whose to_entity alone is a stop word, was filtered
C6_Witness ==
  /\ f_ops = <<"stop">>
  /\ Count(f_in, connThe) = 2
  /\ Count(f_in, connLow) = 1
  /\ Count(f_in, connCat) = 1
  /\ f_out = <<connCat>>

WorkerRunning(w) == w_pc[w] \in {"get", "try", "records"}

\* C7: while an extraction worker runs, no loader worker has been started, no
\* statement has been built or executed, no checkpoint has been written and
\* main() is inside the pool; once a loader worker has been started, every
\* statement is in the queue, with a loader or in the graph store.
C7_PhasesNeverOverlap ==
  /\ (\E w \in Workers : WorkerRunning(w))
       => /\ main_pc = "pool"
          /\ \A l \in Loaders : l_pc[l] = "idle"
          /\ graph = << >>
          /\ query_queue = << >>
          /\ cache_file = cache_at_start
          /\ filtered_file = NoFile
  /\ (\E l \in Loaders : l_pc[l] # "idle")
       => /\ \A w \in Workers : ~WorkerRunning(w)
          /\ Len(query_queue) + Cardinality({l \in Loaders : l_query[l] # << >>})
               + Len(graph) = Len(connection_list)

\* the extraction phase ran, and a loader worker has executed a statement
\* while another statement is still queued
C7_Witness ==
  /\ sentences_count > 0
  /\ \A w \in Workers : w_pc[w] = "exited"
  /\ main_pc = "loading"
  /\ Len(graph) > 0
  /\ Len(query_queue) > 0

\* C8: a worker ends only by observing the empty queue; no sentence is handed
\* out twice; when the pool has finished the queue is empty and every sentence
\* put on it was taken once.
C8_QueueDrained ==
  /\ \A w \in Workers :
       WorkerEnded(w) => (w_pc[w] = "exited" /\ sentence_queue = << >>)
  /\ \A s \in SentenceIds : dequeues[s] <= 1
  /\ (main_pc = "pool" /\ PoolDone)
       => /\ sentence_queue = << >>
          /\ \A s \in 1..sentences_count : dequeues[s] = 1

\* C9: once started, the pool completes with the primary checkpoint written.
C9_PoolTerminates ==
  (main_pc = "pool") ~> (main_pc = "filter" /\ \A w \in Workers : w_pc[w] = "exited")

\* C10: a malformed response is a failed try like any other: its records are
\* not iterated, and it ends neither the worker nor the run.
C10_MalformedRetried ==
  \A w \in Workers :
    /\ w_pc[w] # "crashed"
    /\ w_pc[w] = "records"
         => ~Malformed(extractions[w], docSentence[w].document)

\* C11: in a run whose store was seeded from the checkpoint, the store handed
\* to the query builder is the store loaded from the checkpoint.
C11_SeededStoreUnfiltered ==
  (/\ cache_at_start.exists
   /\ Len(cache_at_start.rows) > 0
   /\ main_pc \in {"queries", "load", "loading", "done"})
    => connection_list = get_cache_connections(cache_at_start)

\* the statement the query builder derives from a Connection: the two nodes
\* keyed by the entity texts, the edge with the relationship and confidence
StatementFor(c) ==
  [from_name |-> Escape(c.from_entity), to_name |-> Escape(c.to_entity),
   rel_name |-> Escape(c.relationship), confidence |-> FloatToStr(c.confidence)]

\* C12: when build_queries_from_connections has returned, the statement queue
\* holds one statement per Connection of the store, in store order, and the
\* store is still the filtered store.
C12_OneStatementPerConnection ==
  main_pc = "load"
    => /\ Len(query_queue) = Len(connection_list)
       /\ \A k \in 1..Len(connection_list) :
            query_queue[k] = StatementFor(connection_list[k])
       /\ filtered_file = cache_data(connection_list)

\* three different statements are queued, one of them with escaped quotes
C12_Witness ==
  /\ main_pc = "load"
  /\ Len(query_queue) = 3
  /\ query_queue[1] # query_queue[2]
  /\ query_queue[2] # query_queue[3]
  /\ query_queue[1].rel_name # connection_list[1].relationship

\* how often a sequence of statements holds a statement
CountStatement(q, x) == Cardinality({k \in 1..Len(q) : q[k] = x})

\* the statements of this run: one per Connection of the filtered store
RunStatements == [k \in 1..Len(connection_list) |-> StatementFor(connection_list[k])]

\* every statement of the run is in the graph store exactly once, the queue
\* is empty and every loader worker has returned
LoadComplete ==
  /\ \A l \in Loaders : l_pc[l] = "exited"
  /\ query_queue = << >>
  /\ Len(graph) = Len(RunStatements)
  /\ \A k \in 1..Len(RunStatements) :
       CountStatement(graph, RunStatements[k])
         = CountStatement(RunStatements, RunStatements[k])

\* C13: no statement is executed more often than it was enqueued; each commit
\* is the single statement a loader worker holds; and once the loader pool is
\* started, either a statement execution fails or the pool ends with every
\* statement executed exactly once, the queue empty and every worker returned.
C13_EveryStatementExecutedOnce ==
  /\ [](\A k \in 1..Len(graph) :
          CountStatement(graph, graph[k]) <= CountStatement(RunStatements, graph[k]))
  /\ [][graph' # graph
          => \E l \in Loaders : l_query[l] # << >> /\ graph' = graph \o l_query[l]]_vars
  /\ (main_pc = "loading")
       ~> ((\E l \in Loaders : l_pc[l] = "crashed") \/ (main_pc = "done" /\ LoadComplete))

\* the run is done; each loader worker has executed a statement
C13_Witness ==
  /\ main_pc = "done"
  /\ LoadComplete
  /\ Len(graph) = 3
  /\ \A l \in Loaders : queries_loaded[l] >= 1

\* the credentials file is missing, or lacks a username or a password
BadCredentials ==
  \/ ~credentials_file.exists
  \/ Len(credentials_file.lines) < 2
  \/ \E k \in 1..Len(credentials_file.lines) : credentials_file.lines[k] = ""

\* C14: with a missing or malformed credentials file no extraction call is
\* made, no checkpoint is written and no statement is executed.
C14_BadCredentialsAbort ==
  BadCredentials
    => /\ \A w \in Workers : w_pc[w] = "idle" /\ item_calls[w] = 0
       /\ cache_file = cache_at_start
       /\ filtered_file = NoFile
       /\ graph = << >>
       /\ main_pc \in {"start", "aborted"}

\* the statements the loader workers hold at this moment
Held == Cardinality({l \in Loaders : l_query[l] # << >>})

\* the load phase is running or has ended
LoadStarted ==
  \/ main_pc = "loading"
  \/ main_pc \in {"done", "aborted"} /\ \E l \in Loaders : LoaderEnded(l)

\* C15: a failure executing a statement stops the loader worker that executed
\* it and nothing else: the statements already executed stay executed, the
\* failed statement stays with its worker and is never put back or executed,
\* and every other loader worker goes on until it finds the queue empty.
C15_StatementFailureLocal ==
  /\ [](LoadStarted =>
          /\ Len(query_queue) + Held + Len(graph) = Len(connection_list)
          /\ \A l \in Loaders :
               /\ l_pc[l] = "crashed" => l_query[l] # << >>
               /\ l_pc[l] = "exited" => query_queue = << >> /\ l_query[l] = << >>)
  /\ [][main_pc = "loading" =>
          /\ Len(graph') >= Len(graph)
          /\ SubSeq(graph', 1, Len(graph)) = graph
          /\ Len(query_queue') <= Len(query_queue)
          /\ \A l \in Loaders :
               l_pc[l] = "crashed"
                 => l_pc'[l] = "crashed" /\ l_query'[l] = l_query[l]]_vars
  /\ (main_pc = "loading")
       ~> /\ \A l \in Loaders : LoaderEnded(l)
          /\ (query_queue = << >> \/ \A l \in Loaders : l_pc[l] = "crashed")

\* one loader worker failed on its second statement, another went on and
\* returned after finding the queue empty
C15_Witness ==
  \E l1, l2 \in Loaders :
    /\ l_pc[l1] = "crashed" /\ queries_loaded[l1] = 1
    /\ l_pc[l2] = "exited" /\ queries_loaded[l2] = 1
    /\ Len(graph) = 2
    /\ query_queue = << >>

\* the extraction phase ran in this run: its workers were started
ExtractionRan == \E w \in Workers : w_pc[w] # "idle"

\* main() is past the extraction phase and no filter pass has run yet
AfterExtraction ==
  \/ main_pc = "filter"
  \/ main_pc = "aborted" /\ \A l \in Loaders : l_pc[l] = "idle"

\* C16: once the extraction phase has run and its workers have exited, the
\* primary checkpoint holds the unfiltered store in insertion order; a run
\* that skips extraction leaves the primary checkpoint as it found it; the
\* filtered checkpoint is written after both filter passes and holds the
\* filtered store.
C16_CheckpointsWritten ==
  /\ (ExtractionRan /\ AfterExtraction) => cache_file = cache_data(connection_list)
  /\ ~ExtractionRan => cache_file = cache_at_start
  /\ main_pc \in {"start", "build", "pool", "filter"} => filtered_file = NoFile
  /\ main_pc \in {"queries", "load"} => filtered_file = cache_data(connection_list)

\* the last occurrence of every distinct Connection of a list, in list order
LastOccurrences(l) ==
  LET Keep(k) == \A j \in (k + 1)..Len(l) : ~ConnEq(l[j], l[k])
      RECURSIVE Pick(_)
      Pick(k) == IF k > Len(l) THEN << >>
                 ELSE (IF Keep(k) THEN <<l[k]>> ELSE << >>) \o Pick(k + 1)
  IN  Pick(1)

\* a list that holds some stop-word Connection more than once
HasDuplicateStopWord(l) ==
  \E k \in 1..Len(l) : ~NotStopWord(l[k]) /\ Count(l, l[k]) >= 2

PoolFinishedClean == \A w \in Workers : w_pc[w] = "exited"

\* the sentences whose extraction call returned
Succeeded == {s \in 1..sentences_count : counted[s] >= 1}

\* the pool's result: the sum of the workers' results, kept in
\* sentences_processed once main() has left the pool
PoolResult ==
  IF main_pc = "pool"
  THEN SumProcessed(worker_processed, CONNECTION_BUILDER_THREADS)
  ELSE sentences_processed

\* C19: when the extraction pool has finished and no worker has crashed, the
\* sum of the workers' processed counts is the number of sentences whose
\* extraction call returned, and that sum plus the number of dropped
\* sentences is the number of enqueued sentences; no sentence is counted
\* twice, by two workers or by one.
C19_ProcessedAccounting ==
  /\ \A s \in SentenceIds : counted[s] <= 1 /\ dequeues[s] <= 1
  /\ PoolFinishedClean
       => /\ PoolResult = Cardinality(Succeeded)
          /\ PoolResult + Cardinality(dropped) = sentences_count
          /\ dropped \cap Succeeded = {}

\* the pool has finished on two sentences: one was extracted, the other was
\* dropped after its last try
C19_Witness ==
  /\ PoolFinishedClean
  /\ main_pc = "filter"
  /\ sentences_count = 2
  /\ sentences_processed = 1
  /\ Cardinality(dropped) = 1

\* main() is past both filter passes
PastFilter == main_pc \in {"queries", "load", "loading", "done", "aborted"}

\* C18: a run seeded from the populated primary checkpoint that the run
\* before it wrote calls the extraction service for nothing, hands
\* build_queries_from_connections the list that run handed it, in the same
\* order, and puts the same statements on the queue in the same order.
C18_RerunHandsSameStore ==
  earlier.ran
    => /\ \A w \in Workers : w_pc[w] = "idle" /\ item_calls[w] = 0
       /\ cache_file = cache_at_start
       /\ PastFilter => connection_list = earlier.handed
       /\ main_pc = "load" => query_queue = earlier.statements
       /\ main_pc \in {"load", "loading", "done", "aborted"}
            => statements = earlier.statements

\* the run before extracted a Connection with a quoted text and a duplicated
\* one, its filter passes removed a Connection, and this run has put the
\* statements on the queue
C18_Witness ==
  /\ earlier.ran
  /\ main_pc = "load"
  /\ Len(earlier.handed) = 2
  /\ ListContains(earlier.handed, connQuote)
  /\ Len(cache_file.rows) > Len(earlier.handed)
  /\ Len(query_queue) = 2

====
